---- MODULE Spec2Model ----
(***************************************************************************)
(* Model of PythonVersion/precache-movie-night.py: the Config wrapper      *)
(* (encoding-tolerant read, quote stripping, get with fallback) and main's *)
(* run: configuration checks, playlist fetch and validation, the download  *)
(* loop with failure cleanup, the summary and the exit status.             *)
(*                                                                         *)
(* A string is a sequence of tokens.  The tokens are the two quote         *)
(* characters, the path separator "/", name characters, and "H", which     *)
(* stands for a scheme and authority ("http://host").  Python's None is    *)
(* the one-token sequence None, whose token is in no string.               *)
(***************************************************************************)
EXTENDS Integers, Sequences, FiniteSets, TLC

\* ---- bounds ----
MaxLen == 3
MaxPlaylist == 2
\* the bytes of one read of the text layer (8192 in io), scaled to the model's files
ChunkSize == 8

\* ---- strings ----
DQ == "\""
SQ == "'"
SEP == "/"
None == <<"None">>
Quotes == {DQ, SQ}
Hosts == {"H"}

\* ---- module constants (source lines 16-21) ----
APP == "Application"
DEFAULT_LOCAL_CACHE_DIRECTORY == <<"m">>

\* STRIP_QUOTES = re.compile('^["\'](.*?)["\']$'): a quote character at each
\* end (either one at either end); group 1 is what lies between them.
STRIP_QUOTES_match(value) ==
    /\ Len(value) >= 2
    /\ value[1] \in Quotes
    /\ value[Len(value)] \in Quotes

\* Config._maybe_str_lit: "m := STRIP_QUOTES.match(value) is not None" binds
\* m to the boolean, so m.group(1) raises AttributeError whenever the
\* pattern matches.
maybe_str_lit(value) ==
    IF value = None
    THEN [raised |-> "", value |-> None]
    ELSE LET m == STRIP_QUOTES_match(value)
         IN  IF m
             THEN [raised |-> "AttributeError", value |-> None]
             ELSE [raised |-> "", value |-> value]

\* ---- the configuration store ----
\* A store maps section names to maps from option names to strings.
EmptyCfg == [s \in {} |-> [k \in {} |-> <<>>]]

\* ConfigParser.get(section, option, fallback=fallback)
ConfigParser_get(cfg, section, option, fallback) ==
    IF section \in DOMAIN cfg /\ option \in DOMAIN cfg[section]
    THEN cfg[section][option]
    ELSE fallback

\* Config.get
Config_get(cfg, section, option, fallback) ==
    maybe_str_lit(ConfigParser_get(cfg, section, option, fallback))

\* ConfigParser.read of a decoded file: its options are laid over the store.
OptionsOf(cfg, s) == IF s \in DOMAIN cfg THEN DOMAIN cfg[s] ELSE {}

ConfigParser_read(cfg, content) ==
    [s \in DOMAIN cfg \cup DOMAIN content |->
        [k \in OptionsOf(cfg, s) \cup OptionsOf(content, s) |->
            IF k \in OptionsOf(content, s) THEN content[s][k] ELSE cfg[s][k]]]

\* Config._try_read for one file: the candidate list, and whether some
\* candidate decodes the file without a UnicodeError.
possible_encodings(file_hint) ==
    IF file_hint # ""
    THEN <<file_hint, "utf-8", "utf-16", "cp1252">>
    ELSE <<"utf-8", "utf-16", "cp1252">>

\* try_read with the failure of every candidate ignored
try_read_ignoring_failure(file) == TRUE

try_read(file) ==
    LET cands == possible_encodings(file.hint)
    IN  \E i \in 1..Len(cands) : cands[i] \in file.decodes

\* ---- URIs ----
HasNetloc(u) == u # None /\ Len(u) > 0 /\ u[1] \in Hosts

url_path(u) == IF HasNetloc(u) THEN Tail(u) ELSE u

RECURSIVE LastSep(_, _)
LastSep(s, i) == IF i = 0 THEN 0 ELSE IF s[i] = SEP THEN i ELSE LastSep(s, i - 1)

\* os.path.basename
basename(p) == SubSeq(p, LastSep(p, Len(p)) + 1, Len(p))

\* ---- urljoin (urllib.parse), on the path's segments ----
DOTDOT == ".."

\* F(a) and F(a, b) with the arguments evaluated once, before the call
Strict1(F(_), a) == CHOOSE r \in {F(x) : x \in {a}} : TRUE
Strict2(F(_, _), a, b) == CHOOSE r \in {F(x, y) : x \in {a}, y \in {b}} : TRUE

RECURSIVE FirstSep(_, _)
FirstSep(s, i) ==
    IF i > Len(s) THEN 0 ELSE IF s[i] = SEP THEN i ELSE Strict2(FirstSep, s, i + 1)

\* path.split('/')
RECURSIVE Split(_)
SplitAt(p, i) ==
    IF i = 0 THEN <<p>>
    ELSE <<SubSeq(p, 1, i - 1)>> \o Strict1(Split, SubSeq(p, i + 1, Len(p)))
Split(p) == Strict2(SplitAt, p, FirstSep(p, 1))

\* '/'.join(segments)
RECURSIVE Join(_)
Join(segs) ==
    IF Len(segs) = 0 THEN <<>>
    ELSE IF Len(segs) = 1 THEN segs[1]
    ELSE segs[1] \o <<SEP>> \o Strict1(Join, Tail(segs))

\* segments[1:-1] = filter(None, segments[1:-1])
RECURSIVE DropEmpty(_)
DropEmpty(segs) ==
    IF Len(segs) = 0 THEN <<>>
    ELSE IF segs[1] = <<>> THEN Strict1(DropEmpty, Tail(segs))
    ELSE <<segs[1]>> \o Strict1(DropEmpty, Tail(segs))

FilterMiddle(segs) ==
    IF Len(segs) < 3 THEN segs
    ELSE <<segs[1]>> \o DropEmpty(SubSeq(segs, 2, Len(segs) - 1)) \o <<segs[Len(segs)]>>

\* the loop over the segments: ".." pops what was resolved so far
RECURSIVE ResolveDots(_, _)
ResolveDots(segs, resolved) ==
    IF Len(segs) = 0 THEN resolved
    ELSE IF segs[1] = <<DOTDOT>>
    THEN Strict2(ResolveDots, Tail(segs),
                 IF Len(resolved) = 0 THEN resolved
                 ELSE SubSeq(resolved, 1, Len(resolved) - 1))
    ELSE Strict2(ResolveDots, Tail(segs), Append(resolved, segs[1]))

\* base_parts: the base's segments without a last one that is not empty
base_parts_of(all_parts) ==
    IF all_parts[Len(all_parts)] # <<>>
    THEN SubSeq(all_parts, 1, Len(all_parts) - 1)
    ELSE all_parts

\* the segments to resolve: the url's own if it is rooted, else the base's
\* followed by the url's, without the empty ones in the middle
segments_of(bpath, path) ==
    IF path[1] = SEP
    THEN Split(path)
    ELSE Strict1(FilterMiddle, Strict1(base_parts_of, Split(bpath)) \o Split(path))

\* the resolved segments, closed by an empty one after a last ".."
resolved_of(segments) ==
    IF segments[Len(segments)] = <<DOTDOT>>
    THEN Append(ResolveDots(segments, <<>>), <<>>)
    ELSE ResolveDots(segments, <<>>)

path_or_root(joined) == IF joined = <<>> THEN <<SEP>> ELSE joined

\* the path of the joined URI
merged_path(bpath, path) ==
    Strict1(path_or_root,
            Strict1(Join, Strict1(resolved_of, Strict2(segments_of, bpath, path))))

\* the base's scheme and authority before the merged path
with_netloc(base, path) ==
    IF HasNetloc(base)
    THEN <<base[1]>> \o (IF path[1] = SEP THEN path ELSE <<SEP>> \o path)
    ELSE path

urljoin(base, url) ==
    IF base = <<>> THEN url
    ELSE IF url = <<>> THEN base
    ELSE IF HasNetloc(url) THEN url
    ELSE Strict2(with_netloc, base, merged_path(url_path(base), url))

\* download_server + "/" if download_server else ""
download_server_uri_of(download_server) ==
    IF download_server # None /\ download_server # <<>>
    THEN Append(download_server, SEP)
    ELSE <<>>

\* ---- JSON values of the manifest ----
JStr(s) == [type |-> "str", s |-> s]
JInt == [type |-> "int", s |-> <<>>]
JList(items) == [type |-> "list", items |-> items]
JDict == [type |-> "dict", items |-> <<>>]
\* a body that json.load rejects
NotJson == [type |-> "invalid", items |-> <<>>]

\* is_str_list without the test of the elements
is_str_list_any_list(value) == value.type = "list"

is_str_list(value) ==
    /\ value.type = "list"
    /\ \A i \in 1..Len(value.items) : value.items[i].type = "str"

\* ---- the download directory ----
\* The directory's entries by local name; the name <<>> is the directory
\* itself (download_dir / "" is download_dir).
Absent == [kind |-> "absent", src |-> <<>>]
Stale == [kind |-> "stale", src |-> <<>>]
Partial == [kind |-> "partial", src |-> <<>>]
Dir == [kind |-> "dir", src |-> <<>>]
Served(uri) == [kind |-> "served", src |-> uri]
IsFile(entry) == entry.kind \in {"stale", "partial", "served"}

\* <<"..">> is download_dir / "..", the directory above.  "D:" is a drive
\* prefix: a name that begins with it is an ordinary file name on POSIX, and
\* on Windows download_dir / name is then a path on that drive.
DRIVE == "D:"
LocalNames == {<<>>, <<"a">>, <<"b">>, <<DOTDOT>>, <<DRIVE, "a">>}

\* Whether download_dir / name lies outside the download directory.
outside_download_dir(windows, name) ==
    \/ name = <<DOTDOT>>
    \/ windows /\ Len(name) > 0 /\ name[1] = DRIVE

\* try_unlink without the except clause: the OSError leaves the function
try_unlink_raising(fsys, name) ==
    IF fsys[name].kind \in {"stale", "partial", "served"}
    THEN [fs |-> [fsys EXCEPT ![name] = [kind |-> "absent", src |-> <<>>]], raised |-> ""]
    ELSE [fs |-> fsys, raised |-> "OSError"]

\* try_unlink that removes nothing
try_unlink_keeping(fsys, name) == [fs |-> fsys, raised |-> ""]

\* try_unlink: os.unlink, with every OSError swallowed (no such file, or the
\* path is a directory).
try_unlink(fsys, name) ==
    IF IsFile(fsys[name])
    THEN [fs |-> [fsys EXCEPT ![name] = Absent], raised |-> ""]
    ELSE [fs |-> fsys, raised |-> ""]

\* with_name(name)'s download_hook divides by total_size.
download_hook(total_size) ==
    IF total_size = 0 THEN "ZeroDivisionError" ELSE ""

\* What the hook prints when it returns: line 128 formats a percentage for
\* every total_size, the unknown one (-1) included.
hook_prints(total_size) == "percent"

\* What a server can answer to one GET.  status 0 is a connection failure.
PlainResponses ==
    {[status |-> 404, total |-> -1, stream |-> "none"],
     [status |-> 0, total |-> -1, stream |-> "none"],
     [status |-> 204, total |-> -1, stream |-> "complete"],
     [status |-> 200, total |-> 0, stream |-> "complete"],
     [status |-> 200, total |-> 1, stream |-> "complete"]}
Responses ==
    PlainResponses \cup [status : {200}, total : {-1, 1}, stream : {"complete", "broken"}]

\* urlopen raises for an unknown url type, for a connection failure and for
\* every status outside 2xx.
urlopen(uri, r) ==
    IF ~HasNetloc(uri) THEN [raised |-> "ValueError", sent |-> FALSE]
    ELSE IF r.status = 0 THEN [raised |-> "URLError", sent |-> TRUE]
    ELSE IF r.status \notin 200..299 THEN [raised |-> "HTTPError", sent |-> TRUE]
    ELSE [raised |-> "", sent |-> TRUE]

\* urlretrieve that takes a broken transfer for a complete one
urlretrieve_unchecked(fsys, file_uri, name, r) ==
    LET o == urlopen(file_uri, r)
    IN  IF o.raised # ""
        THEN [fs |-> fsys, raised |-> o.raised, sent |-> o.sent]
        ELSE IF fsys[name].kind = "dir"
        THEN [fs |-> fsys, raised |-> "IsADirectoryError", sent |-> TRUE]
        ELSE IF download_hook(r.total) # ""
        THEN [fs |-> [fsys EXCEPT ![name] = Partial],
              raised |-> download_hook(r.total), sent |-> TRUE]
        ELSE IF r.stream = "broken"
        THEN [fs |-> [fsys EXCEPT ![name] = Partial], raised |-> "", sent |-> TRUE]
        ELSE [fs |-> [fsys EXCEPT ![name] = Served(file_uri)],
              raised |-> "", sent |-> TRUE]

\* urllib's urlretrieve(file_uri, file_path, reporthook): open the URL, open
\* the file for writing, call the hook, copy the body block by block.
urlretrieve(fsys, file_uri, name, r) ==
    LET o == urlopen(file_uri, r)
    IN  IF o.raised # ""
        THEN [fs |-> fsys, raised |-> o.raised, sent |-> o.sent]
        ELSE IF fsys[name].kind = "dir"
        THEN [fs |-> fsys, raised |-> "IsADirectoryError", sent |-> TRUE]
        ELSE IF download_hook(r.total) # ""
        THEN [fs |-> [fsys EXCEPT ![name] = Partial],
              raised |-> download_hook(r.total), sent |-> TRUE]
        ELSE IF r.stream = "broken"
        THEN [fs |-> [fsys EXCEPT ![name] = Partial],
              raised |-> "OSError", sent |-> TRUE]
        ELSE [fs |-> [fsys EXCEPT ![name] = Served(file_uri)],
              raised |-> "", sent |-> TRUE]

\* fatal with exit(0)
fatal_exit_zero(message) == [code |-> 0, via |-> "fatal", msg |-> message]

\* fatal(message): report, wait for enter, exit(1).
fatal(message) == [code |-> 1, via |-> "fatal", msg |-> message]

\* An exception that leaves main ends the interpreter with status 1.
uncaught(exc) == [code |-> 1, via |-> "exception", msg |-> exc]

\* main returns: the interpreter ends with status 0.
returned == [code |-> 0, via |-> "return", msg |-> ""]

\* line 49 testing the playlist string instead of its netloc
no_netloc_testing_string(download_server, playlist_config) ==
    ~HasNetloc(download_server) /\ (playlist_config = None \/ playlist_config = <<>>)

\* line 49: neither the download server nor the playlist has a netloc
no_netloc(download_server, playlist_config) ==
    ~HasNetloc(download_server) /\ ~HasNetloc(playlist_config)

\* ---- the run's inputs ----
Section(pl, ds, dd) ==
    [k \in {x \in {"Playlist"} : pl # None}
           \cup {x \in {"DownloadServer"} : ds # None}
           \cup {x \in {"DownloadDirectory"} : dd # None} |->
        IF k = "Playlist" THEN pl ELSE IF k = "DownloadServer" THEN ds ELSE dd]

AppCfg(pl, ds, dd) == [s \in {APP} |-> Section(pl, ds, dd)]

PlainDecodes == {"utf-8", "cp1252"}
File(content) == [exists |-> TRUE, hint |-> "", decodes |-> PlainDecodes, content |-> content]
MissingFile == [exists |-> FALSE, hint |-> "", decodes |-> {}, content |-> EmptyCfg]
UndecodableFile == [exists |-> TRUE, hint |-> "", decodes |-> {}, content |-> EmptyCfg]

AbsPlaylist == <<"H", SEP, "p">>
RelPlaylist == <<"p">>
PlaylistValues == {None, <<>>, RelPlaylist, AbsPlaylist, <<DQ>> \o AbsPlaylist \o <<DQ>>}
ServerValues == {None, <<>>, <<"H", SEP, "f">>, <<"H", SEP, "f", SEP>>, <<"f">>}
DirectoryValues == {None, <<"m">>, <<SQ, "m", SQ>>}

ServerFiles ==
    {MissingFile, UndecodableFile, File(EmptyCfg)}
    \cup {File(AppCfg(pl, ds, None)) : pl \in PlaylistValues, ds \in ServerValues}

LocalFiles ==
    {MissingFile, UndecodableFile}
    \cup {File(AppCfg(None, None, dd)) : dd \in DirectoryValues}

EntryStrings == {<<"a">>, <<"b">>, <<"d", SEP>>, <<"H", SEP, "g", SEP, "a">>}
JItems == {JStr(s) : s \in EntryStrings} \cup {JInt}

RECURSIVE SeqsUpTo(_, _)
SeqsUpTo(S, n) ==
    IF n = 0 THEN {<<>>}
    ELSE LET shorter == SeqsUpTo(S, n - 1)
         IN  shorter \cup {Append(s, x) : s \in shorter, x \in S}

Manifests == {JDict} \cup {JList(items) : items \in SeqsUpTo(JItems, MaxPlaylist)}

DirsWith(names) ==
    {[n \in LocalNames |-> IF n \in {<<>>, <<DOTDOT>>} THEN Dir ELSE IF n \in stale THEN Stale ELSE Absent] :
        stale \in SUBSET names}
InitialDirs == DirsWith({<<"a">>, <<"b">>})

\* Entries with directory parts, dot segments, an empty last segment, another
\* host, and a last segment that begins with a drive prefix.
PathStrings ==
    {<<"d", SEP>>, <<DOTDOT>>, <<DOTDOT, SEP, "a">>, <<"H", SEP, "g", SEP, DOTDOT>>,
     <<"d", SEP, DRIVE, "a">>}
PathManifests == {JList(items) : items \in SeqsUpTo({JStr(e) : e \in PathStrings}, MaxPlaylist)}

\* ---- text, bytes and encodings ----
\* The byte-level reading of a configuration file.  A byte is a number in
\* 0..255, a decoded text is a sequence of code points, and a store read
\* from bytes maps section names to maps from option names to values, all
\* three sequences of code points.

\* The code points of the characters that the script's literals and the
\* files of the model are written with.
ord ==
    ("\n" :> 10) @@ (" " :> 32) @@ (DQ :> 34) @@ (SQ :> 39) @@ ("." :> 46) @@
    (SEP :> 47) @@ ("1" :> 49) @@ ("=" :> 61) @@ ("A" :> 65) @@ ("D" :> 68) @@
    ("M" :> 77) @@ ("N" :> 78) @@ ("[" :> 91) @@ ("]" :> 93) @@ ("a" :> 97) @@
    ("c" :> 99) @@ ("d" :> 100) @@ ("e" :> 101) @@ ("g" :> 103) @@
    ("h" :> 104) @@ ("i" :> 105) @@ ("k" :> 107) @@ ("l" :> 108) @@
    ("m" :> 109) @@ ("n" :> 110) @@ ("o" :> 111) @@ ("p" :> 112) @@
    ("r" :> 114) @@ ("t" :> 116) @@ ("v" :> 118) @@ ("w" :> 119) @@
    ("x" :> 120) @@ ("y" :> 121) @@ ("e-acute" :> 233)
Ord(text) == [i \in 1..Len(text) |-> ord[text[i]]]

\* The character of a code point; "?" stands for every character that the
\* table above lacks.
chr(cp) ==
    IF \E c \in DOMAIN ord : ord[c] = cp
    THEN CHOOSE c \in DOMAIN ord : ord[c] = cp
    ELSE "?"
Chr(cps) == [i \in 1..Len(cps) |-> chr(cps[i])]

\* The literals "Application" (line 16), "DownloadDirectory" (lines 34, 98)
\* and "./MovieNight" (line 20), character by character.
APP_text == <<"A", "p", "p", "l", "i", "c", "a", "t", "i", "o", "n">>
DownloadDirectory_text ==
    <<"D", "o", "w", "n", "l", "o", "a", "d", "D", "i", "r", "e", "c", "t", "o", "r", "y">>
DEFAULT_LOCAL_CACHE_DIRECTORY_text ==
    <<".", SEP, "M", "o", "v", "i", "e", "N", "i", "g", "h", "t">>

RECURSIVE Concat(_)
Concat(seqs) == IF seqs = <<>> THEN <<>> ELSE Head(seqs) \o Concat(Tail(seqs))
Drop(s, n) == SubSeq(s, n + 1, Len(s))

\* str.encode for the characters of the Basic Multilingual Plane.
encode_char(encoding, cp) ==
    CASE encoding = "utf-8" ->
            IF cp < 128 THEN <<cp>>
            ELSE IF cp < 2048 THEN <<192 + (cp \div 64), 128 + (cp % 64)>>
            ELSE <<224 + (cp \div 4096), 128 + ((cp \div 64) % 64), 128 + (cp % 64)>>
      [] encoding = "utf-16-le" -> <<cp % 256, cp \div 256>>
      [] encoding = "utf-16-be" -> <<cp \div 256, cp % 256>>
      [] encoding = "utf-32-le" -> <<cp % 256, cp \div 256, 0, 0>>
      [] encoding = "utf-32-be" -> <<0, 0, cp \div 256, cp % 256>>
      [] encoding = "cp1252" -> <<cp>>
encode(encoding, cps) ==
    Concat([i \in 1..Len(cps) |-> encode_char(encoding, cps[i])])

\* Config._WELL_DEFINED_ENCODING (lines 139-145), in the order of the source.
WELL_DEFINED_ENCODING ==
    << <<"utf-8-sig", <<239, 187, 191>> >>,
       <<"utf-16-le", <<255, 254>> >>,
       <<"utf-16-be", <<254, 255>> >>,
       <<"utf-32-le", <<255, 254, 0, 0>> >>,
       <<"utf-32-be", <<0, 0, 254, 255>> >> >>

startswith(bytes, prefix) ==
    Len(bytes) >= Len(prefix) /\ SubSeq(bytes, 1, Len(prefix)) = prefix

\* Config._detect_known_encoding (lines 147-153): the first signature, in
\* the order of the list, that the first four bytes start with.
RECURSIVE first_signature(_, _)
first_signature(raw_bytes, i) ==
    IF i > Len(WELL_DEFINED_ENCODING) THEN ""
    ELSE IF startswith(raw_bytes, WELL_DEFINED_ENCODING[i][2])
         THEN WELL_DEFINED_ENCODING[i][1]
         ELSE first_signature(raw_bytes, i + 1)

detect_known_encoding(file) ==
    LET raw_bytes == SubSeq(file, 1, IF Len(file) < 4 THEN Len(file) ELSE 4)
    IN  first_signature(raw_bytes, 1)

\* ---- the codecs' incremental decoders ----
\* One step of a decoder on the bytes it holds: a character and the number
\* of bytes it took, a wait for more bytes, or a UnicodeDecodeError.
DecodeError == [kind |-> "error", cp |-> 0, used |-> 0]
DecodeNeed == [kind |-> "need", cp |-> 0, used |-> 0]
DecodeChar(cp, used) == [kind |-> "char", cp |-> cp, used |-> used]
Incomplete(final) == IF final THEN DecodeError ELSE DecodeNeed

utf_8_decode(d, final) ==
    LET b == d[1]
        n == IF b < 128 THEN 1
             ELSE IF b \in 194..223 THEN 2
             ELSE IF b \in 224..239 THEN 3
             ELSE IF b \in 240..244 THEN 4
             ELSE 0
        second == IF b = 224 THEN 160..191
                  ELSE IF b = 237 THEN 128..159
                  ELSE IF b = 240 THEN 144..191
                  ELSE IF b = 244 THEN 128..143
                  ELSE 128..191
        have == IF Len(d) < n THEN Len(d) ELSE n
        bad == \E i \in 2..have : d[i] \notin (IF i = 2 THEN second ELSE 128..191)
    IN  IF n = 0 \/ bad THEN DecodeError
        ELSE IF Len(d) < n THEN Incomplete(final)
        ELSE IF n = 1 THEN DecodeChar(b, 1)
        ELSE IF n = 2 THEN DecodeChar((b - 192) * 64 + (d[2] - 128), 2)
        ELSE IF n = 3
             THEN DecodeChar((b - 224) * 4096 + (d[2] - 128) * 64 + (d[3] - 128), 3)
        ELSE DecodeChar((b - 240) * 262144 + (d[2] - 128) * 4096
                        + (d[3] - 128) * 64 + (d[4] - 128), 4)

utf_16_decode(d, final, little) ==
    LET unit(i) == IF little THEN d[i] + 256 * d[i + 1] ELSE 256 * d[i] + d[i + 1]
    IN  IF Len(d) < 2 THEN Incomplete(final)
        ELSE IF unit(1) \in 56320..57343 THEN DecodeError
        ELSE IF unit(1) \in 55296..56319
             THEN IF Len(d) < 4 THEN Incomplete(final)
                  ELSE IF unit(3) \in 56320..57343
                       THEN DecodeChar(65536 + (unit(1) - 55296) * 1024
                                       + (unit(3) - 56320), 4)
                       ELSE DecodeError
        ELSE DecodeChar(unit(1), 2)

utf_32_decode(d, final, little) ==
    IF Len(d) < 4 THEN Incomplete(final)
    ELSE LET cp == IF little
                   THEN d[1] + 256 * d[2] + 65536 * d[3] + 16777216 * d[4]
                   ELSE 16777216 * d[1] + 65536 * d[2] + 256 * d[3] + d[4]
         IN  IF cp > 1114111 \/ cp \in 55296..57343
             THEN DecodeError
             ELSE DecodeChar(cp, 4)

\* cp1252: bytes 0x80..0x9f map through the code page's table, in which
\* 0x81, 0x8d, 0x8f, 0x90 and 0x9d are undefined (-1).
cp1252_table ==
    <<8364, -1, 8218, 402, 8222, 8230, 8224, 8225, 710, 8240, 352, 8249, 338,
      -1, 381, -1, -1, 8216, 8217, 8220, 8221, 8226, 8211, 8212, 732, 8482,
      353, 8250, 339, -1, 382, 376>>
cp1252_decode(d) ==
    IF d[1] \notin 128..159 THEN DecodeChar(d[1], 1)
    ELSE IF cp1252_table[d[1] - 127] = -1 THEN DecodeError
    ELSE DecodeChar(cp1252_table[d[1] - 127], 1)

decode_one(encoding, d, final) ==
    CASE encoding = "utf-8" -> utf_8_decode(d, final)
      [] encoding = "utf-16-le" -> utf_16_decode(d, final, TRUE)
      [] encoding = "utf-16-be" -> utf_16_decode(d, final, FALSE)
      [] encoding = "utf-32-le" -> utf_32_decode(d, final, TRUE)
      [] encoding = "utf-32-be" -> utf_32_decode(d, final, FALSE)
      [] encoding = "cp1252" -> cp1252_decode(d)

\* A decoder's call on the bytes it holds: every complete character, in
\* order, up to the end, an incomplete one, or an error.
RECURSIVE decode_units(_, _, _, _)
decode_units(encoding, data, final, text) ==
    IF data = <<>> THEN [error |-> FALSE, text |-> text, rest |-> <<>>]
    ELSE LET r == decode_one(encoding, data, final)
         IN  IF r.kind = "error" THEN [error |-> TRUE, text |-> text, rest |-> data]
             ELSE IF r.kind = "need" THEN [error |-> FALSE, text |-> text, rest |-> data]
             ELSE decode_units(encoding, Drop(data, r.used), final, Append(text, r.cp))

\* The first call of the decoders that look for a signature.  "utf-8-sig"
\* skips the UTF-8 signature if the bytes begin with it and waits while they
\* may still; "utf-16" takes its byte order from the signature and raises
\* UnicodeError ("UTF-16 stream does not start with BOM") without one.  The
\* other decoders skip nothing: a signature is decoded as U+FEFF.
signature_stage(encoding, data, final) ==
    CASE encoding = "utf-8-sig" ->
            IF Len(data) < 3
            THEN IF startswith(<<239, 187, 191>>, data)
                 THEN [kind |-> "need", encoding |-> encoding, skip |-> 0]
                 ELSE [kind |-> "go", encoding |-> "utf-8", skip |-> 0]
            ELSE IF startswith(data, <<239, 187, 191>>)
                 THEN [kind |-> "go", encoding |-> "utf-8", skip |-> 3]
                 ELSE [kind |-> "go", encoding |-> "utf-8", skip |-> 0]
      [] encoding = "utf-16" ->
            IF Len(data) < 2
            THEN IF final /\ Len(data) = 1
                 THEN [kind |-> "error", encoding |-> encoding, skip |-> 0]
                 ELSE [kind |-> "need", encoding |-> encoding, skip |-> 0]
            ELSE IF startswith(data, <<255, 254>>)
                 THEN [kind |-> "go", encoding |-> "utf-16-le", skip |-> 2]
            ELSE IF startswith(data, <<254, 255>>)
                 THEN [kind |-> "go", encoding |-> "utf-16-be", skip |-> 2]
            ELSE [kind |-> "error", encoding |-> encoding, skip |-> 0]
      [] OTHER -> [kind |-> "go", encoding |-> encoding, skip |-> 0]

\* open(file, encoding=encoding) read to its end or to its first
\* UnicodeError: the text layer reads the file in chunks and hands each to
\* the incremental decoder, the last call (no bytes left) with final=True.
\* The text of the chunks before a failing one has been handed on already.
RECURSIVE read_text(_, _, _, _)
read_text(encoding, pending, file, text) ==
    LET chunk == SubSeq(file, 1, IF Len(file) < ChunkSize THEN Len(file) ELSE ChunkSize)
        final == chunk = <<>>
        data == pending \o chunk
        stage == signature_stage(encoding, data, final)
    IN  IF stage.kind = "error" THEN [error |-> TRUE, text |-> text]
        ELSE IF stage.kind = "need"
             THEN IF final THEN [error |-> FALSE, text |-> text]
                  ELSE read_text(encoding, data, Drop(file, Len(chunk)), text)
        ELSE LET d == decode_units(stage.encoding, Drop(data, stage.skip), final, <<>>)
             IN  IF d.error THEN [error |-> TRUE, text |-> text]
                 ELSE IF final THEN [error |-> FALSE, text |-> text \o d.text]
                 ELSE read_text(stage.encoding, d.rest, Drop(file, Len(chunk)),
                                text \o d.text)

\* ---- ConfigParser's reader and writer ----
Whitespace == {9, 10, 11, 12, 13, 28, 29, 30, 31, 32, 133, 160}
RECURSIVE lstrip(_)
lstrip(s) == IF s # <<>> /\ s[1] \in Whitespace THEN lstrip(Tail(s)) ELSE s
RECURSIVE rstrip(_)
rstrip(s) ==
    IF s # <<>> /\ s[Len(s)] \in Whitespace THEN rstrip(SubSeq(s, 1, Len(s) - 1)) ELSE s
strip(s) == lstrip(rstrip(s))

\* optionxform is str.lower
lower(cp) == IF cp \in 65..90 \/ (cp \in 192..222 /\ cp # 215) THEN cp + 32 ELSE cp
optionxform(s) == [i \in 1..Len(s) |-> lower(s[i])]

\* Universal newlines: "\r\n" and "\r" are read as "\n".
RECURSIVE universal_newlines(_)
universal_newlines(t) ==
    IF t = <<>> THEN <<>>
    ELSE IF t[1] = 13
         THEN <<10>> \o universal_newlines(IF Len(t) >= 2 /\ t[2] = 10
                                          THEN Tail(Tail(t)) ELSE Tail(t))
         ELSE <<t[1]>> \o universal_newlines(Tail(t))

\* The lines that iterating the file yields: whole means the file was read
\* to its end, so that a last line without a line end is one too.
RECURSIVE split_lines(_, _, _)
split_lines(t, cur, whole) ==
    IF t = <<>> THEN (IF whole /\ cur # <<>> THEN <<cur>> ELSE <<>>)
    ELSE IF t[1] = 10 THEN <<cur>> \o split_lines(Tail(t), <<>>, whole)
    ELSE split_lines(Tail(t), Append(cur, t[1]), whole)

\* SECTCRE: "[", at least one character, "]"; the header runs to the last "]".
SECT_match(value) == value[1] = 91 /\ \E j \in 3..Len(value) : value[j] = 93
SECT_header(value) ==
    LET j == CHOOSE j \in 3..Len(value) :
                 value[j] = 93 /\ \A k \in (j + 1)..Len(value) : value[k] # 93
    IN  SubSeq(value, 2, j - 1)

\* _optcre: the option is what precedes the first "=" or ":".
Delimiters == {61, 58}
OPT_match(value) == \E i \in 1..Len(value) : value[i] \in Delimiters
OPT_at(value) ==
    CHOOSE i \in 1..Len(value) :
        value[i] \in Delimiters /\ \A k \in 1..(i - 1) : value[k] \notin Delimiters

SetOption(sections, sectname, optname, optval) ==
    [sections EXCEPT ![sectname] =
        [o \in DOMAIN sections[sectname] \cup {optname} |->
            IF o = optname THEN optval ELSE sections[sectname][o]]]

\* ConfigParser._read's loop body for one line.  P holds the loop's
\* variables: the sections, the current section and option (optname is <<>>
\* when there is none), the indent level, the elements added by this read,
\* whether a ParsingError is pending (e) and the exception raised at once.
\* An option's lines are kept joined with "\n".  The DEFAULT section and
\* interpolation are left out: no file of the model names DEFAULT or holds
\* a "%".
parse_line(P, line) ==
    LET value == strip(line)
        cur_indent_level == Len(line) - Len(lstrip(line))
    IN  IF P.raised # "" THEN P
        ELSE IF value # <<>> /\ value[1] \in {35, 59} THEN P
        ELSE IF value = <<>>
             THEN IF P.has_sect /\ P.optname # <<>>
                  THEN [P EXCEPT !.sections =
                           SetOption(P.sections, P.sectname, P.optname,
                                     P.sections[P.sectname][P.optname] \o <<10>>)]
                  ELSE P
        ELSE IF P.has_sect /\ P.optname # <<>> /\ cur_indent_level > P.indent_level
             THEN [P EXCEPT !.sections =
                      SetOption(P.sections, P.sectname, P.optname,
                                P.sections[P.sectname][P.optname] \o <<10>> \o value)]
        ELSE IF SECT_match(value)
             THEN LET sectname == SECT_header(value)
                  IN  IF sectname \in DOMAIN P.sections /\ sectname \in P.added_sections
                      THEN [P EXCEPT !.raised = "DuplicateSectionError"]
                      ELSE [P EXCEPT
                              !.sections =
                                  [s \in DOMAIN P.sections \cup {sectname} |->
                                      IF s \in DOMAIN P.sections THEN P.sections[s]
                                      ELSE [o \in {} |-> <<>>]],
                              !.has_sect = TRUE,
                              !.sectname = sectname,
                              !.optname = <<>>,
                              !.indent_level = cur_indent_level,
                              !.added_sections = P.added_sections \cup {sectname}]
        ELSE IF ~P.has_sect
             THEN [P EXCEPT !.raised = "MissingSectionHeaderError"]
        ELSE IF OPT_match(value)
             THEN LET i == OPT_at(value)
                      option == rstrip(SubSeq(value, 1, i - 1))
                      optname == optionxform(option)
                      optval == strip(Drop(value, i))
                  IN  IF <<P.sectname, optname>> \in P.added_options
                      THEN [P EXCEPT !.raised = "DuplicateOptionError"]
                      ELSE [P EXCEPT
                              !.sections = SetOption(P.sections, P.sectname, optname, optval),
                              !.optname = optname,
                              !.indent_level = cur_indent_level,
                              !.e = P.e \/ option = <<>>,
                              !.added_options = P.added_options \cup {<<P.sectname, optname>>}]
        ELSE [P EXCEPT !.e = TRUE, !.indent_level = cur_indent_level]

RECURSIVE parse_lines(_, _)
parse_lines(P, lines) ==
    IF lines = <<>> THEN P ELSE parse_lines(parse_line(P, Head(lines)), Tail(lines))

\* _join_multiline_values: every value loses its trailing whitespace.
join_multiline_values(sections) ==
    [s \in DOMAIN sections |-> [o \in DOMAIN sections[s] |-> rstrip(sections[s][o])]]

\* ConfigParser.read(file, encoding=encoding) on a store (line 165): the
\* exception it raises, if any, and the store it leaves.  The lines that
\* were read before a UnicodeError have been parsed into the store.
ConfigParser_read_file(cfg, file, encoding) ==
    LET d == read_text(encoding, <<>>, file, <<>>)
        lines == split_lines(universal_newlines(d.text), <<>>, ~d.error)
        P == parse_lines([sections |-> cfg, has_sect |-> FALSE, sectname |-> <<>>,
                          optname |-> <<>>, indent_level |-> 0,
                          added_sections |-> {}, added_options |-> {},
                          e |-> FALSE, raised |-> ""], lines)
    IN  [raised |-> IF P.raised # "" THEN P.raised
                    ELSE IF d.error THEN "UnicodeError"
                    ELSE IF P.e THEN "ParsingError"
                    ELSE "",
         store |-> join_multiline_values(P.sections)]

\* ConfigParser.write of a store with one section and one option:
\* "[section]\n", "option = value\n" with "\n\t" for each "\n" of the value,
\* and an empty line.
RECURSIVE indent_newlines(_)
indent_newlines(v) ==
    IF v = <<>> THEN <<>>
    ELSE IF v[1] = 10 THEN <<10, 9>> \o indent_newlines(Tail(v))
    ELSE <<v[1]>> \o indent_newlines(Tail(v))
ConfigParser_write(section, option, value) ==
    <<91>> \o section \o <<93, 10>> \o option \o <<32, 61, 32>>
           \o indent_newlines(value) \o <<10>> \o <<10>>

\* Config.write with the text written as UTF-16
Config_write_utf16(section, option, value) ==
    <<255, 254>> \o encode("utf-16-le", ConfigParser_write(section, optionxform(option), value))

\* Config.__setitem__ (lines 185-186) of one option, then Config.write
\* (lines 198-200): the option name goes through optionxform, and the text
\* is written as UTF-8.
Config_write(section, option, value) ==
    encode("utf-8", ConfigParser_write(section, optionxform(option), value))

\* Config.get (lines 191-193) on a store read from bytes, the names and the
\* fallback given as text.
Config_get_text(cfg, section, option, fallback) ==
    LET s == Ord(section)
        o == optionxform(Ord(option))
    IN  IF s \in DOMAIN cfg /\ o \in DOMAIN cfg[s]
        THEN maybe_str_lit(Chr(cfg[s][o]))
        ELSE maybe_str_lit(fallback)

\* ---- state ----
VARIABLES
    pc,               \* main's position
    serverFile,       \* the server configuration file on disk
    localFile,        \* precache-local-settings.ini on disk
    dirExists,        \* download_dir.exists()
    config,           \* the Config store
    playlist_config,  \* main's locals
    download_server,
    playlist_json,
    idx,              \* position of the for loop in playlist_json
    count,
    fs,               \* the download directory
    fs0,              \* the download directory when the run began
    requests,         \* the HTTP requests issued so far, in order
    response,         \* the server's answer to the playlist request
    results,          \* what happened to each entry attempted so far
    summary,          \* the counts of the final summary line
    exit,             \* how the process ended
    get_call,         \* the arguments and outcome of the last Config.get
    is_windows,       \* IS_WINDOWS
    manifests,        \* the bodies the playlist server may answer with
    reader,           \* a Config.read followed on the bytes of one file
    responses         \* the answers the file server may give

vars == <<pc, serverFile, localFile, dirExists, config, playlist_config,
          download_server, playlist_json, idx, count, fs, fs0, requests,
          response, results, summary, exit, get_call, is_windows, manifests, reader,
          responses>>

Running == [code |-> -1, via |-> "", msg |-> "", at |-> ""]
NoResponse == [received |-> FALSE, status |-> -1, body |-> NotJson]
NoSummary == [printed |-> FALSE, count |-> 0, total |-> 0]
NoCall == [called |-> FALSE, section |-> "", option |-> "", fallback |-> None,
           raised |-> "", value |-> None]
Call(section, option, fallback, r) ==
    [called |-> TRUE, section |-> section, option |-> option,
     fallback |-> fallback, raised |-> r.raised, value |-> r.value]

\* A file given by its bytes, no file, and the reader before any read.
Raw(bytes) == [exists |-> TRUE, written_as |-> "", text |-> <<>>, bytes |-> bytes]
NoFile == [exists |-> FALSE, written_as |-> "", text |-> <<>>, bytes |-> <<>>]
NoReader ==
    [file |-> NoFile, created |-> FALSE, before |-> EmptyCfg, store |-> EmptyCfg,
     hint |-> "", cands |-> <<>>, tried |-> <<>>, status |-> "",
     got |-> [raised |-> "", value |-> None]]

Start(servers, locals, dirs, trees, platforms, served, answers) ==
    /\ pc = "start"
    /\ serverFile \in servers
    /\ localFile \in locals
    /\ dirExists \in dirs
    /\ config = EmptyCfg
    /\ playlist_config = None
    /\ download_server = None
    /\ playlist_json = JList(<<>>)
    /\ idx = 1
    /\ count = 0
    /\ fs \in trees
    /\ fs0 = fs
    /\ requests = <<>>
    /\ response = NoResponse
    /\ results = <<>>
    /\ summary = NoSummary
    /\ exit = Running
    /\ get_call = NoCall
    /\ is_windows \in platforms
    /\ manifests = served
    /\ responses = answers
    /\ reader = NoReader

Init ==
    Start(ServerFiles, LocalFiles, BOOLEAN, InitialDirs, {FALSE}, Manifests, PlainResponses)

\* The process ends at the current position.
Exit(e) ==
    /\ pc' = "exited"
    /\ exit' = [code |-> e.code, via |-> e.via, msg |-> e.msg, at |-> pc]

\* lines 25-27
CheckServerConfig ==
    /\ pc = "start"
    /\ IF ~serverFile.exists
       THEN Exit(fatal("server config required"))
       ELSE pc' = "read_server" /\ UNCHANGED exit
    /\ UNCHANGED <<serverFile, localFile, dirExists, config, playlist_config,
                   download_server, playlist_json, idx, count, fs, fs0, is_windows, manifests, reader, responses,
                   requests, response, results, summary, get_call>>

\* lines 29-30
ReadServerConfig ==
    /\ pc = "read_server"
    /\ IF try_read(serverFile)
       THEN /\ config' = ConfigParser_read(config, serverFile.content)
            /\ pc' = "create_local"
            /\ UNCHANGED exit
       ELSE /\ Exit(uncaught("RuntimeError"))
            /\ UNCHANGED config
    /\ UNCHANGED <<serverFile, localFile, dirExists, playlist_config,
                   download_server, playlist_json, idx, count, fs, fs0, is_windows, manifests, reader, responses,
                   requests, response, results, summary, get_call>>

\* line 31, create_local_config_if_not_exists (lines 92-99)
CreateLocalConfig ==
    /\ pc = "create_local"
    /\ localFile' = IF localFile.exists THEN localFile
                    ELSE File(AppCfg(None, None, DEFAULT_LOCAL_CACHE_DIRECTORY))
    /\ pc' = "read_local"
    /\ UNCHANGED <<serverFile, dirExists, config, playlist_config,
                   download_server, playlist_json, idx, count, fs, fs0, is_windows, manifests, reader, responses,
                   requests, response, results, summary, exit, get_call>>

\* line 32
ReadLocalConfig ==
    /\ pc = "read_local"
    /\ IF try_read(localFile)
       THEN /\ config' = ConfigParser_read(config, localFile.content)
            /\ pc' = "download_dir"
            /\ UNCHANGED exit
       ELSE /\ Exit(uncaught("RuntimeError"))
            /\ UNCHANGED config
    /\ UNCHANGED <<serverFile, localFile, dirExists, playlist_config,
                   download_server, playlist_json, idx, count, fs, fs0, is_windows, manifests, reader, responses,
                   requests, response, results, summary, get_call>>

\* lines 34-41
ResolveDownloadDir ==
    /\ pc = "download_dir"
    /\ LET g == Config_get(config, APP, "DownloadDirectory", DEFAULT_LOCAL_CACHE_DIRECTORY)
       IN  /\ get_call' = Call(APP, "DownloadDirectory", DEFAULT_LOCAL_CACHE_DIRECTORY, g)
           /\ IF g.raised # "" THEN Exit(uncaught(g.raised))
              ELSE IF ~dirExists THEN Exit(fatal("directory does not exist"))
              ELSE pc' = "playlist" /\ UNCHANGED exit
    /\ UNCHANGED <<serverFile, localFile, dirExists, config, playlist_config,
                   download_server, playlist_json, idx, count, fs, fs0, is_windows, manifests, reader, responses,
                   requests, response, results, summary>>

\* lines 43-45
GetPlaylist ==
    /\ pc = "playlist"
    /\ LET g == Config_get(config, APP, "Playlist", None)
       IN  /\ get_call' = Call(APP, "Playlist", None, g)
           /\ IF g.raised # ""
              THEN Exit(uncaught(g.raised)) /\ UNCHANGED playlist_config
              ELSE /\ playlist_config' = g.value
                   /\ IF g.value = None \/ g.value = <<>>
                      THEN Exit(fatal("Playlist is not optional"))
                      ELSE pc' = "server" /\ UNCHANGED exit
    /\ UNCHANGED <<serverFile, localFile, dirExists, config, download_server,
                   playlist_json, idx, count, fs, fs0, is_windows, manifests, reader, responses, requests, response, results,
                   summary>>

\* lines 47-50
GetDownloadServer ==
    /\ pc = "server"
    /\ LET g == Config_get(config, APP, "DownloadServer", None)
       IN  /\ get_call' = Call(APP, "DownloadServer", None, g)
           /\ IF g.raised # ""
              THEN Exit(uncaught(g.raised)) /\ UNCHANGED download_server
              ELSE /\ download_server' = g.value
                   /\ IF no_netloc(g.value, playlist_config)
                      THEN Exit(fatal("fully qualified url required"))
                      ELSE pc' = "fetch" /\ UNCHANGED exit
    /\ UNCHANGED <<serverFile, localFile, dirExists, config, playlist_config,
                   playlist_json, idx, count, fs, fs0, is_windows, manifests, reader, responses, requests, response, results,
                   summary>>

\* lines 52-57: the playlist request and json.load of its body
FetchPlaylist ==
    /\ pc = "fetch"
    /\ LET playlist_uri == urljoin(download_server_uri_of(download_server), playlist_config)
       IN  \E status \in {200, 204, 404, 0}, body \in manifests \cup {NotJson} :
              LET o == urlopen(playlist_uri, [status |-> status])
              IN  /\ requests' = IF o.sent
                                 THEN Append(requests, [kind |-> "playlist", uri |-> playlist_uri])
                                 ELSE requests
                  /\ response' = IF o.sent /\ status # 0
                                 THEN [received |-> TRUE, status |-> status, body |-> body]
                                 ELSE response
                  /\ IF o.raised # ""
                     THEN /\ body = NotJson
                          /\ Exit(uncaught(o.raised))
                          /\ UNCHANGED playlist_json
                     ELSE IF status # 200
                     THEN /\ body = NotJson
                          /\ Exit(fatal("unable to find the playlist"))
                          /\ UNCHANGED playlist_json
                     ELSE IF body = NotJson
                     THEN /\ Exit(uncaught("JSONDecodeError"))
                          /\ UNCHANGED playlist_json
                     ELSE /\ playlist_json' = body
                          /\ pc' = "validate"
                          /\ UNCHANGED exit
    /\ UNCHANGED <<serverFile, localFile, dirExists, config, playlist_config,
                   download_server, idx, count, fs, fs0, is_windows, manifests, reader, responses, results, summary,
                   get_call>>

\* lines 59-62
ValidatePlaylist ==
    /\ pc = "validate"
    /\ IF ~is_str_list(playlist_json)
       THEN Exit(fatal("expected array of strings"))
       ELSE pc' = "loop" /\ UNCHANGED exit
    /\ count' = 0
    /\ idx' = 1
    /\ UNCHANGED <<serverFile, localFile, dirExists, config, playlist_config,
                   download_server, playlist_json, fs, fs0, is_windows, manifests, reader, responses, requests, response, results,
                   summary, get_call>>

\* lines 63-77: one iteration of the for loop.  (Each value is bound through
\* a one-element set so that it is computed once.)
DownloadEntry ==
    /\ pc = "loop"
    /\ idx <= Len(playlist_json.items)
    /\ \E r \in responses,
          filename \in {playlist_json.items[idx].s} :
       \E file_uri \in {urljoin(download_server_uri_of(download_server), filename)} :
       \E name \in {basename(url_path(file_uri))} :
       \E got \in {urlretrieve(fs, file_uri, name, r)} :
       \E cleaned \in {IF got.raised # ""
                        THEN try_unlink(got.fs, name)
                        ELSE [fs |-> got.fs, raised |-> ""]} :
          /\ fs' = cleaned.fs
          /\ requests' = IF got.sent
                         THEN Append(requests, [kind |-> "file", uri |-> file_uri])
                         ELSE requests
          /\ results' = Append(results,
                 [index |-> idx, filename |-> filename, uri |-> file_uri,
                  name |-> name, status |-> IF got.sent THEN r.status ELSE -1,
                  raised |-> got.raised, before |-> fs[name].kind,
                  wrote |-> got.fs[name].kind,
                  total |-> IF got.sent /\ r.status \in 200..299 THEN r.total ELSE -1,
                  stream |-> IF got.sent THEN r.stream ELSE "none",
                  progress |-> IF got.raised \in {"", "OSError"}
                               THEN hook_prints(r.total) ELSE "none",
                  complete |-> TRUE])   \* line 76 runs on every iteration
          /\ IF cleaned.raised # ""
             THEN /\ Exit(uncaught(cleaned.raised))
                  /\ UNCHANGED <<count, idx>>
             ELSE /\ count' = count + 1
                  /\ idx' = idx + 1
                  /\ UNCHANGED <<pc, exit>>
    /\ UNCHANGED <<serverFile, localFile, dirExists, config, playlist_config,
                   download_server, playlist_json, fs0, is_windows, manifests, reader, responses, response, summary,
                   get_call>>

\* lines 79-80: the summary line, then main returns
Summarize ==
    /\ pc = "loop"
    /\ idx > Len(playlist_json.items)
    /\ summary' = [printed |-> TRUE, count |-> count, total |-> Len(playlist_json.items)]
    /\ Exit(returned)
    /\ UNCHANGED <<serverFile, localFile, dirExists, config, playlist_config,
                   download_server, playlist_json, idx, count, fs, fs0, is_windows, manifests, reader, responses,
                   requests, response, results, get_call>>

Next ==
    \/ CheckServerConfig
    \/ ReadServerConfig
    \/ CreateLocalConfig
    \/ ReadLocalConfig
    \/ ResolveDownloadDir
    \/ GetPlaylist
    \/ GetDownloadServer
    \/ FetchPlaylist
    \/ ValidatePlaylist
    \/ DownloadEntry
    \/ Summarize

Spec == Init /\ [][Next]_vars

\* Runs whose configuration is in order, so that the playlist is fetched.
GoodServerFiles ==
    {File(AppCfg(RelPlaylist, <<"H", SEP, "f">>, None)),
     File(AppCfg(AbsPlaylist, <<>>, None))}
InitDownload ==
    Start(GoodServerFiles, {MissingFile, File(AppCfg(None, None, <<"m">>))},
          {TRUE}, InitialDirs, {FALSE}, Manifests, PlainResponses)

\* Runs on either platform whose playlist names paths rather than plain files.
InitPaths ==
    Start(GoodServerFiles, {MissingFile}, {TRUE},
          DirsWith({<<"a">>, <<DRIVE, "a">>}), BOOLEAN, PathManifests, PlainResponses)
SpecPaths == InitPaths /\ [][Next]_vars

\* Runs whose file server also answers with bodies of unknown length and
\* with bodies that break off.
InitTransfer ==
    Start(GoodServerFiles, {MissingFile}, {TRUE}, InitialDirs, {FALSE}, Manifests, Responses)
SpecTransfer == InitTransfer /\ [][Next]_vars

\* The for loop runs on: urlretrieve returns or raises, and so does the rest
\* of each iteration.
FairSpec ==
    InitDownload /\ [][Next]_vars /\ WF_vars(DownloadEntry) /\ WF_vars(Summarize)

TypeOK ==
    /\ pc \in {"config", "config_done", "start", "read_server", "create_local", "read_local",
               "download_dir", "playlist", "server", "fetch", "validate",
               "loop", "exited"}
    /\ count \in 0..(MaxPlaylist + 1)
    /\ exit.code \in {-1, 0, 1}
    /\ (pc = "exited") = (exit.code # -1)

\* ---- Config.get on its own ----
\* The store holds one value under Application/Playlist, or lacks the option,
\* or lacks the section; get is called with any section, option and fallback.
ConfigChars == {DQ, SQ, "a"}
ConfigValues == SeqsUpTo(ConfigChars, MaxLen)
Stores ==
    {EmptyCfg, [s \in {APP} |-> [k \in {} |-> <<>>]]}
    \cup {[s \in {APP} |-> [k \in {"Playlist"} |-> v]] : v \in ConfigValues}

InitConfig ==
    /\ pc = "config"
    /\ serverFile = MissingFile
    /\ localFile = MissingFile
    /\ dirExists = FALSE
    /\ config \in Stores
    /\ playlist_config = None
    /\ download_server = None
    /\ playlist_json = JList(<<>>)
    /\ idx = 1
    /\ count = 0
    /\ fs = [n \in LocalNames |-> IF n \in {<<>>, <<DOTDOT>>} THEN Dir ELSE Absent]
    /\ fs0 = fs
    /\ requests = <<>>
    /\ response = NoResponse
    /\ results = <<>>
    /\ summary = NoSummary
    /\ exit = Running
    /\ get_call = NoCall
    /\ is_windows = FALSE
    /\ manifests = {}
    /\ responses = {}
    /\ reader = NoReader

\* Config.get (lines 191-193)
ConfigGet ==
    /\ pc = "config"
    /\ pc' = "config_done"
    /\ \E section \in {APP, "Other"}, option \in {"Playlist", "Missing"},
          fallback \in ConfigValues \cup {None} :
          get_call' = Call(section, option, fallback,
                           Config_get(config, section, option, fallback))
    /\ UNCHANGED <<serverFile, localFile, dirExists, config,
                   playlist_config, download_server, playlist_json, idx,
                   count, fs, fs0, is_windows, manifests, reader, responses, requests, response, results, summary, exit>>

NextConfig == ConfigGet

SpecConfig == InitConfig /\ [][NextConfig]_vars

\* ---- Config.read on the bytes of a file ----
\* The texts that the files of the model are written from.
Texts ==
    {<<"[", "A", "]", "\n", "k", "=", "v", "\n">>,
     <<"[", "A", "]", "\n", "k", " ", "=", " ", "e-acute", "\n", "[", "x", "]", "\n">>}
Signature(encoding) ==
    LET i == CHOOSE i \in 1..Len(WELL_DEFINED_ENCODING) : WELL_DEFINED_ENCODING[i][1] = encoding
    IN  WELL_DEFINED_ENCODING[i][2]
\* A file that an editor saved in the encoding, with its signature.
SavedAs(encoding, text) ==
    [exists |-> TRUE, written_as |-> encoding, text |-> Ord(text),
     bytes |-> Signature(encoding)
               \o encode(IF encoding = "utf-8-sig" THEN "utf-8" ELSE encoding, Ord(text))]
\* A file saved without a signature.
Plain(encoding, text) ==
    [exists |-> TRUE, written_as |-> encoding, text |-> Ord(text),
     bytes |-> encode(encoding, Ord(text))]

\* A section and a non-ASCII option in UTF-8, then more than a chunk of
\* further bytes, the last of them invalid in UTF-8.
LateErrorFile ==
    Raw(encode("utf-8", Ord(<<"[", "A", "]", "\n", "e-acute", "=", "1", "\n">>))
        \o [i \in 1..ChunkSize |-> 120] \o <<61, 255>>)

ByteFiles ==
    {SavedAs(WELL_DEFINED_ENCODING[i][1], t) : i \in 1..Len(WELL_DEFINED_ENCODING), t \in Texts}
    \cup {Plain(e, t) : e \in {"utf-8", "cp1252", "utf-16-le"}, t \in Texts}
    \cup {Raw(b) : b \in {<<>>, <<255>>, <<239, 187>>, <<255, 254, 0>>,
                          <<239, 187, 191, 255>>,
                          encode("utf-8", Ord(<<"[", "A", "]", "\n", "k", "=">>)) \o <<129, 10>>,
                          encode("utf-8", Ord(<<"[", "A", "]", "\n", "k", "=">>)) \o <<255, 10>>,
                          encode("utf-8", Ord(<<"k", "=", "v", "\n">>)),
                          encode("utf-8", Ord(<<"[", "A", "]", "\n", "k", "\n">>)),
                          encode("utf-8", Ord(<<"[", "A", "]", "\n", "k", "=", "v", "\n",
                                                "k", "=", "w", "\n">>)),
                          encode("utf-8", Ord(<<"[", "A", "]", "\n", "k", "=", "v", "\n",
                                                " ", "w", "\n">>))}}
    \cup {LateErrorFile, NoFile}

\* The store before the read: empty, or holding a server configuration
\* that sets DownloadDirectory.
StoresBefore ==
    {EmptyCfg,
     [s \in {Ord(APP_text)} |->
        [o \in {optionxform(Ord(DownloadDirectory_text))} |-> Ord(<<"d">>)]]}

InitEncoding ==
    /\ pc = "enc_create"
    /\ serverFile = MissingFile
    /\ localFile = MissingFile
    /\ dirExists = FALSE
    /\ config = EmptyCfg
    /\ playlist_config = None
    /\ download_server = None
    /\ playlist_json = JList(<<>>)
    /\ idx = 1
    /\ count = 0
    /\ fs = [n \in LocalNames |-> IF n \in {<<>>, <<DOTDOT>>} THEN Dir ELSE Absent]
    /\ fs0 = fs
    /\ requests = <<>>
    /\ response = NoResponse
    /\ results = <<>>
    /\ summary = NoSummary
    /\ exit = Running
    /\ get_call = NoCall
    /\ is_windows = FALSE
    /\ manifests = {}
    /\ responses = {}
    /\ \E f \in ByteFiles, cfg \in StoresBefore :
          reader = [NoReader EXCEPT !.file = f, !.before = cfg, !.store = cfg]

MainUnchanged ==
    UNCHANGED <<serverFile, localFile, dirExists, config, playlist_config,
                download_server, playlist_json, idx, count, fs, fs0, is_windows,
                manifests, responses, requests, response, results, summary, exit, get_call>>

\* create_local_config_if_not_exists (lines 92-99)
CreateLocalConfigFile ==
    /\ pc = "enc_create"
    /\ pc' = "enc_detect"
    /\ reader' =
          IF reader.file.exists THEN reader
          ELSE [reader EXCEPT
                  !.created = TRUE,
                  !.file = Raw(Config_write(Ord(APP_text), Ord(DownloadDirectory_text),
                                            Ord(DEFAULT_LOCAL_CACHE_DIRECTORY_text)))]
    /\ MainUnchanged

\* Config._try_read, lines 158-162
DetectKnownEncoding ==
    /\ pc = "enc_detect"
    /\ pc' = "enc_try"
    /\ \E file_hint \in {detect_known_encoding(reader.file.bytes)} :
          reader' = [reader EXCEPT !.hint = file_hint,
                                   !.cands = possible_encodings(file_hint)]
    /\ MainUnchanged

\* Config._try_read, lines 163-171: one turn of the loop over the candidates
TryEncoding ==
    /\ pc = "enc_try"
    /\ \E encoding \in {reader.cands[Len(reader.tried) + 1]} :
       \E r \in {ConfigParser_read_file(reader.store, reader.file.bytes, encoding)} :
          /\ reader' =
                [reader EXCEPT
                   !.store = r.store,
                   !.tried = Append(reader.tried, [encoding |-> encoding, raised |-> r.raised]),
                   !.status = IF r.raised = "" THEN "read"
                              ELSE IF r.raised # "UnicodeError" THEN r.raised
                              ELSE IF Len(reader.tried) + 1 = Len(reader.cands)
                                   THEN "RuntimeError"
                                   ELSE ""]
          /\ pc' = IF r.raised = "" THEN "enc_get"
                   ELSE IF r.raised = "UnicodeError" /\ Len(reader.tried) + 1 < Len(reader.cands)
                        THEN "enc_try"
                        ELSE "enc_done"
    /\ MainUnchanged

\* Config.get("Application", "DownloadDirectory") after the read
GetDownloadDirectory ==
    /\ pc = "enc_get"
    /\ pc' = "enc_done"
    /\ reader' = [reader EXCEPT
                    !.got = Config_get_text(reader.store, APP_text,
                                            DownloadDirectory_text, None)]
    /\ MainUnchanged

NextEncoding ==
    \/ CreateLocalConfigFile
    \/ DetectKnownEncoding
    \/ TryEncoding
    \/ GetDownloadDirectory

SpecEncoding == InitEncoding /\ [][NextEncoding]_vars

\* ---- claims ----
\* The last Config.get found a stored value / what it found.
Stored == /\ get_call.called
          /\ get_call.section \in DOMAIN config
          /\ get_call.option \in DOMAIN config[get_call.section]
StoredValue == config[get_call.section][get_call.option]
SameQuotePair(v) == Len(v) >= 2 /\ v[1] \in Quotes /\ v[Len(v)] = v[1]

Succeeded(r) == r.status = 200 /\ r.raised = ""
Failed(r) == r.raised # ""
FileRequests == {i \in 1..Len(requests) : requests[i].kind = "file"}
Items == playlist_json.items

\* C1: the final summary reports (succeeded count, total count): the number
\* of entries that got a 200 response and streamed without an exception, and
\* the length of the playlist.
C1_SummaryCountsSuccesses ==
    summary.printed =>
        /\ summary.count = Cardinality({i \in 1..Len(results) : Succeeded(results[i])})
        /\ summary.total = Len(Items)

\* C2: once the playlist is validated, whatever fails per entry, the entries
\* are attempted once each in list order and the run reaches the summary.
AttemptedInOrder(n) ==
    /\ Len(results) = n
    /\ \A i \in 1..n : results[i].index = i /\ results[i].filename = Items[i].s
C2_BatchNeverHalts ==
    /\ [](pc = "loop" => AttemptedInOrder(idx - 1))
    /\ [](pc = "loop" =>
            <>(pc = "exited" /\ summary.printed /\ AttemptedInOrder(Len(Items))))
C2_Witness ==
    /\ pc = "exited"
    /\ summary.printed
    /\ Len(results) = 2
    /\ results[1].raised = "ZeroDivisionError"
    /\ results[2].raised = "HTTPError"
    /\ results[2].before = "absent"

IsListOfStrings(v) ==
    v.type = "list" /\ \A i \in 1..Len(v.items) : v.items[i].type = "str"
BadShape ==
    /\ response.received
    /\ response.status = 200
    /\ response.body.type \in {"list", "dict"}
    /\ ~IsListOfStrings(response.body)
C4_BadManifestNoDownload ==
    BadShape =>
        /\ FileRequests = {}
        /\ fs = fs0
        /\ pc \in {"validate", "exited"}
        /\ pc = "exited" => exit.code = 1 /\ exit.via = "fatal" /\ exit.at = "validate"
C4_Witness ==
    /\ BadShape
    /\ pc = "exited"
    /\ response.body.type = "list"
    /\ Len(response.body.items) = 2
    /\ response.body.items[1].type = "str"
    /\ response.body.items[2].type = "int"

\* The value the two configuration files give an option.
Effective(option) ==
    LET c == [s \in {APP} |->
                [k \in OptionsOf(serverFile.content, APP) \cup OptionsOf(localFile.content, APP) |->
                    IF k \in OptionsOf(localFile.content, APP)
                    THEN localFile.content[APP][k]
                    ELSE serverFile.content[APP][k]]]
    IN  IF option \in DOMAIN c[APP] THEN c[APP][option] ELSE None
FullyQualified(u) == u # None /\ Len(u) > 0 /\ u[1] = "H"

\* C5: an empty or absent DownloadServer with a Playlist that is not fully
\* qualified ends the run fatally with the resolution error, and no request
\* of any kind is issued.
C5_Pre ==
    /\ Effective("DownloadServer") \in {None, <<>>}
    /\ ~FullyQualified(Effective("Playlist"))
C5_NoBaseNoRequest ==
    C5_Pre =>
        /\ requests = <<>>
        /\ pc \notin {"fetch", "validate", "loop"}
        /\ pc = "exited" => exit.code = 1
        /\ (pc = "exited" /\ exit.at = "server") =>
               exit.via = "fatal" /\ exit.msg = "fully qualified url required"
C5_Witness ==
    /\ C5_Pre
    /\ Effective("Playlist") = RelPlaylist
    /\ pc = "exited"
    /\ exit.at = "server"
    /\ exit.msg = "fully qualified url required"

\* C6: with the server configuration missing, a configuration file that no
\* candidate encoding decodes, the Playlist key absent or empty, or the
\* download directory missing, the run ends without any HTTP request.
Undecodable(file) ==
    file.exists /\ file.decodes \cap {file.hint, "utf-8", "utf-16", "cp1252"} = {}
C6_Pre ==
    \/ ~serverFile.exists
    \/ Undecodable(serverFile)
    \/ Undecodable(localFile)
    \/ Effective("Playlist") \in {None, <<>>}
    \/ ~dirExists
C6_ConfigErrorsBeforeNetwork ==
    C6_Pre =>
        /\ requests = <<>>
        /\ ~response.received
        /\ pc \notin {"fetch", "validate", "loop"}
        /\ pc = "exited" => exit.code = 1
C6_Witness ==
    /\ pc = "exited"
    /\ Undecodable(localFile)
    /\ Effective("Playlist") = AbsPlaylist
    /\ dirExists
    /\ exit.msg = "RuntimeError"
    /\ requests = <<>>

\* C7: a run that processes the whole playlist exits with 0, also when
\* downloads failed; a run that meets a fatal condition exits with 1.
FatalCondition ==
    \/ C6_Pre
    \/ ~FullyQualified(Effective("DownloadServer")) /\ ~FullyQualified(Effective("Playlist"))
    \/ response.received /\ response.status # 200
    \/ response.received /\ ~IsListOfStrings(response.body)
C7_ExitStatus ==
    pc = "exited" =>
        /\ exit.code \in {0, 1}
        /\ FatalCondition => exit.code = 1
        /\ (summary.printed /\ Len(results) = Len(Items)) => exit.code = 0
        /\ exit.code = 0 => (summary.printed /\ Len(results) = Len(Items))
C7_Witness ==
    /\ pc = "exited"
    /\ exit.code = 0
    /\ Len(results) = 2
    /\ \A i \in 1..2 : Failed(results[i])

\* C8: get on a stored value that begins and ends with the same quote
\* character returns it with exactly that pair removed (an inner pair kept).
C8_MatchingPairStripped ==
    (Stored /\ SameQuotePair(StoredValue)) =>
        /\ get_call.raised = ""
        /\ get_call.value = SubSeq(StoredValue, 2, Len(StoredValue) - 1)

\* C9: get on a stored value with mismatched quoting, a quote at one end
\* only, or no quoting returns it unchanged and does not raise.
C9_UnmatchedUnchanged ==
    (Stored /\ ~SameQuotePair(StoredValue)) =>
        /\ get_call.raised = ""
        /\ get_call.value = StoredValue

\* C10: get returns the fallback as given, None and quoted fallbacks
\* included, when the section or the option is absent, and does not raise.
C10_FallbackUnmodified ==
    (get_call.called /\ ~Stored) =>
        /\ get_call.raised = ""
        /\ get_call.value = get_call.fallback

\* C13: an empty manifest list is a fatal validation failure: no run reaches
\* the download loop or the summary with a total of 0.
C13_EmptyPlaylistRejected ==
    (response.received /\ response.status = 200 /\ response.body = JList(<<>>)) =>
        /\ pc # "loop"
        /\ ~summary.printed
        /\ pc = "exited" => exit.code = 1 /\ exit.via = "fatal"

\* C14: every URI handed to the downloader is fully qualified.
C14_DownloadUrisAbsolute ==
    \A i \in 1..Len(results) : FullyQualified(results[i].uri)

\* C15: progress reporting never fails a transfer: a 200 response whose body
\* streams completely succeeds and its file is kept, for every total size
\* (unknown and 0 included), and no percentage is reported for an unknown one.
C15_ProgressNeverFails ==
    \A i \in 1..Len(results) :
        (results[i].status = 200 /\ results[i].stream = "complete"
            /\ results[i].name \notin {<<>>}) =>
            /\ results[i].raised = ""
            /\ results[i].wrote = "served"
            /\ (i = Len(results) => fs[results[i].name] = Served(results[i].uri))
            /\ (results[i].total = -1 => results[i].progress # "percent")

\* C16: an entry ends Completed or Failed, never both: a failed entry is not
\* reported as completed, and no entry is requested a second time.
C16_EntryStateMachine ==
    /\ \A i \in 1..Len(results) : Failed(results[i]) => ~results[i].complete
    /\ \A i \in 1..Len(results) : results[i].index = i
    /\ Cardinality(FileRequests) <= Len(results)

\* C18: with a non-empty DownloadServer the base used for resolution ends
\* with exactly one separator (one is appended only when none is there).
EndsWithOneSep(u) ==
    /\ Len(u) >= 1
    /\ u[Len(u)] = SEP
    /\ (Len(u) >= 2 => u[Len(u) - 1] # SEP)
C18_OneTrailingSeparator ==
    (pc \in {"fetch", "validate", "loop"} /\ download_server # None /\ download_server # <<>>) =>
        EndsWithOneSep(download_server_uri_of(download_server))

\* C19 as stated: at the end of a completed run every succeeded entry has
\* its file, holding the bytes served for it, also when entries share a
\* local name.
C19_SucceededFilesKept_AsStated ==
    (pc = "exited" /\ summary.printed) =>
        \A i \in 1..Len(results) :
            Succeeded(results[i]) => fs[results[i].name] = Served(results[i].uri)

\* C19 as amended: at the end of a completed run every succeeded entry whose
\* local name no later entry shares has its file, holding the bytes served
\* for it.
NoLaterSameName(i) ==
    \A j \in (i + 1)..Len(results) : results[j].name # results[i].name
C19_SucceededFilesKept ==
    (pc = "exited" /\ summary.printed) =>
        \A i \in 1..Len(results) :
            (Succeeded(results[i]) /\ NoLaterSameName(i)) =>
                fs[results[i].name] = Served(results[i].uri)
C19_Witness ==
    /\ pc = "exited"
    /\ summary.printed
    /\ Len(results) = 2
    /\ Succeeded(results[1])
    /\ results[1].before = "stale"
    /\ Failed(results[2])
    /\ results[2].name # results[1].name
    /\ fs[results[1].name] = Served(results[1].uri)

\* C20: the loop writes and removes only direct children of the download
\* directory: the target is download_dir joined with the last path segment,
\* and the directory itself and every path outside it stay as they were.
LastSegmentOnly ==
    \A i \in 1..Len(results) :
        /\ results[i].name = basename(url_path(results[i].uri))
        /\ \A k \in 1..Len(results[i].name) : results[i].name[k] # SEP
C20_OnlyDirectChildrenTouched ==
    /\ LastSegmentOnly
    /\ fs[<<>>] = fs0[<<>>]
    /\ \A n \in LocalNames : outside_download_dir(is_windows, n) => fs[n] = fs0[n]

\* The read of the file has ended, and the candidate it ended with.
ReadEnded == pc \in {"enc_get", "enc_done"}
LastTried == reader.tried[Len(reader.tried)]

\* C11: a configuration file that starts with one of the five signatures
\* and is written in that encoding is detected as that encoding, is tried
\* with it first, and loads with the same sections, keys and values as a
\* plain UTF-8 file of the same content.
C11_SignedFileLoadsLikeUtf8 ==
    (ReadEnded /\ reader.file.written_as \in
        {WELL_DEFINED_ENCODING[i][1] : i \in 1..Len(WELL_DEFINED_ENCODING)}
     /\ startswith(reader.file.bytes, Signature(reader.file.written_as))) =>
        /\ reader.hint = reader.file.written_as
        /\ reader.tried[1].encoding = reader.file.written_as
        /\ reader.status = "read"
        /\ reader.store =
              ConfigParser_read_file(reader.before,
                                     encode("utf-8", reader.file.text), "utf-8").store

\* C12: when the local configuration file does not exist it is written, and
\* reading it back and getting Application/DownloadDirectory yields the
\* value that was written, "./MovieNight".
C12_BootstrapRoundTrip ==
    (reader.created /\ pc = "enc_done") =>
        /\ reader.status = "read"
        /\ reader.got = [raised |-> "", value |-> DEFAULT_LOCAL_CACHE_DIRECTORY_text]

C12_Witness ==
    /\ reader.created
    /\ pc = "enc_done"
    /\ reader.before # EmptyCfg
    /\ reader.got.value = DEFAULT_LOCAL_CACHE_DIRECTORY_text

\* C17: per file, the candidates are tried in the order hinted encoding (if
\* any), UTF-8, UTF-16, cp1252; the read stops at the first candidate that
\* raises no decoding error and the store holds that candidate's parse and
\* nothing of the earlier candidates; "Unable to read config file" is raised
\* if and only if every candidate raised a decoding error.
C17_CandidateOrderAndSingleParse ==
    ReadEnded =>
        /\ reader.cands = (IF reader.hint = "" THEN <<>> ELSE <<reader.hint>>)
                          \o <<"utf-8", "utf-16", "cp1252">>
        /\ Len(reader.tried) \in 1..Len(reader.cands)
        /\ \A i \in 1..Len(reader.tried) :
              /\ reader.tried[i].encoding = reader.cands[i]
              /\ i < Len(reader.tried) => reader.tried[i].raised = "UnicodeError"
        /\ LastTried.raised = "UnicodeError" => Len(reader.tried) = Len(reader.cands)
        /\ (reader.status = "RuntimeError") =
              (/\ Len(reader.tried) = Len(reader.cands)
               /\ \A i \in 1..Len(reader.tried) : reader.tried[i].raised = "UnicodeError")
        /\ reader.status = "read" =>
              reader.store =
                 ConfigParser_read_file(reader.before, reader.file.bytes,
                                        LastTried.encoding).store

====
